---- MODULE Spec2Model ----
(***************************************************************************)
(* Model of the Kafka-backed message broker of libs/messaging              *)
(* (src/libs/messaging/src/kafka.rs): one KafkaBroker (the Broker Facade)  *)
(* with its producer, its single shared consumer and the consumption       *)
(* loops that subscribe spawns, running against a backing store that keeps *)
(* one single-partition log per topic and one committed offset per         *)
(* (group, topic).                                                         *)
(***************************************************************************)
EXTENDS Naturals, Integers, Sequences, FiniteSets, TLC

\* ------------------------------------------------------------------ bounds
MaxMsgs == 2        \* publish calls that the store acknowledges
MaxFaults == 1      \* failures in one run: crashes, poll errors, commit errors,
                    \* handler panics
MaxProjects == 3    \* rows the projects table gets
MaxPage == 3        \* small page numbers of get_projects queries
MaxPageSize == 2    \* page sizes of get_projects queries

\* ------------------------------------------------------------------ values
Topics == {"T1", "T2"}

\* The handler closures callers pass to subscribe, in the order of the calls:
\* the first subscribe call of a process incarnation passes h1, the second h2.
HandlerSeq == <<"h1", "h2">>
Handlers == {HandlerSeq[n] : n \in 1..Len(HandlerSeq)}

\* Option<Vec<u8>>: None is the absent key, Some(bytes) a present one.
None == <<>>
Some(bytes) == <<bytes>>
\* PubSubMessage { key, payload }: the message of the integration test (a key
\* and a payload), and the messages callers publish (also one without key and
\* with an empty payload).
TestMessage == [key |-> Some(<<1>>), payload |-> <<7>>]
Messages == {TestMessage, [key |-> None, payload |-> <<>>]}

\* A loop that holds no message.
NoMsg == [topic |-> "", off |-> 0, id |-> 0, key |-> None, payload |-> <<>>]

\* "No offset stored" for a (group, topic).
NoOffset == -1

\* What a facade operation gave back to its caller: Ok (ok) or Err, for which
\* operation and topic; publish also names the call (id), subscribe the handler
\* passed, list_topics the names returned. seq alternates from one returned call
\* to the next, so that a caller tells two equal results apart. panicked: the
\* call ended in a panic, the caller got neither Ok nor Err.
NoResult ==
    [op |-> "", topic |-> "", ok |-> TRUE, id |-> 0, handler |-> "", list |-> {},
     seq |-> 0, panicked |-> FALSE]
Result(op, t, ok) == [NoResult EXCEPT !.op = op, !.topic = t, !.ok = ok]

\* The callers' record of the facade's results:
\*   last    the result of the latest call that returned
\*   failed  ids of the publish calls that returned Err
\*   sends   producer.send calls made so far
\*   fetch   the list_topics call in progress, when its steps are told apart:
\*           pc "called" (fetch_metadata not answered yet) or "fetched", the
\*           names the store answered (got), the topics at the call (atCall)
\* NotRecorded is the record of runs whose callers keep no results.
NoFetch == [pc |-> "idle", got |-> {}, atCall |-> {}]
NoCalls ==
    [rec |-> TRUE, last |-> NoResult, failed |-> {}, sends |-> 0, fetch |-> NoFetch]
NotRecorded == [NoCalls EXCEPT !.rec = FALSE]

\* ------------------------------------------------------------------ REST values
\* String: a sequence of characters; " " stands for the whitespace characters.
Strings == {<<>>, <<" ">>, <<"a">>, <<" ", "a">>}

\* CreateProjectPayload { name, description } as the handler reads it.
Payloads == [name : Strings, description : Strings]

\* The Project a repository call returns: the row with its id.
NoProject == [id |-> 0, name |-> <<>>, description |-> <<>>]

\* The REST service has served no create_project request. Of a request the
\* record keeps the payload, the repository calls the handler made (their
\* arguments), whether the repository returned Ok, and what the client got:
\* the status and body of the response, or nothing because the handler
\* panicked.
NoRequest ==
    [served |-> FALSE, name |-> <<>>, description |-> <<>>, repoCalls |-> <<>>,
     repoOk |-> FALSE, status |-> 0, message |-> "", body |-> NoProject,
     panicked |-> FALSE]

\* i64 values of the shape hi * 2^60 + lo with lo < 2^60: hi holds the bits
\* 60..63, so hi >= 8 is a set sign bit.
I64(hi, lo) == [hi |-> hi, lo |-> lo]

\* The page numbers queried: small ones and 2^62 + 1.
Pages == {I64(0, n) : n \in 1..MaxPage} \cup {I64(4, 1)}
PageSizes == 0..MaxPageSize

\* No get_projects query was made. Of a query the record keeps its arguments
\* and its outcome: "ok" with rows, "err", or "panic".
NoQuery == [page |-> I64(0, 0), page_size |-> 0, outcome |-> "", rows |-> <<>>]

\* ------------------------------------------------------------------ demo values
\* The numbers of the server binary: executors, channel capacity, rounds.
num_executors == 2
Capacity == 32
Rounds == 5

\* The receiving tasks: the executors by their id, and the server.
Executors == 0..(num_executors - 1)
ServerTask == num_executors
Receivers == Executors \cup {ServerTask}

\* format!("Message {}", i) and format!("Executor Task {}", i)
ServerMessage(i) == <<"Message ", i>>
ExecutorMessage(i) == <<"Executor Task ", i>>
MessageFor(r, i) == IF r = ServerTask THEN ServerMessage(i) ELSE ExecutorMessage(i)

\* The handles main awaits, in the order join_all awaits them: the server's,
\* the manager's, then the executors'. ManagerTask names the manager's.
ManagerTask == num_executors + 1
JoinOrder == <<ServerTask, ManagerTask>> \o [n \in 1..num_executors |-> n - 1]

\* The server binary as main starts: no task spawned, every channel empty with
\* its sender alive. Of each receiving task the record keeps its position and
\* the messages it received, in order.
DemoStart ==
    [main    |-> [pc |-> "spawn_server", n |-> 0],
     manager |-> [pc |-> "unspawned", i |-> 0, e |-> 0, failed |-> FALSE],
     chan    |-> [r \in Receivers |-> <<>>],
     open    |-> [r \in Receivers |-> TRUE],
     task    |-> [r \in Receivers |-> [pc |-> "unspawned", received |-> <<>>]]]

VARIABLES
    topics,         \* topics that exist in the backing store
    log,            \* log[t]: the records of topic t (one partition), in offset order
    committed,      \* committed[t]: offset committed by the facade's group for t
    pending,        \* async commit requests issued and not yet applied by the store
    subscription,   \* topic list of the facade's one consumer (replaced by subscribe)
    position,       \* next offset the consumer fetches from its assigned partition
    loops,          \* loops[h]: the consumption loop that runs handler h
    incarnation,    \* process incarnation, counts the crashes so far
    faults,         \* failures so far (crashes, poll and commit errors, panics)
    nextId,         \* identity of the next acknowledged publish
    handled,        \* ids of the messages whose handler invocation returned
    commitIssued,   \* ids of the messages for which a commit was requested
    api,            \* what the callers of the facade got back (see NoCalls)
    rest,           \* REST service: the latest create_project request and its outcome
    table,          \* rows of the projects table, newest first
    query,          \* the latest get_projects query and its outcome
    demo            \* the channel demo of the server binary (see DemoStart)

vars == <<topics, log, committed, pending, subscription, position, loops,
          incarnation, faults, nextId, handled, commitIssued, api,
          rest, table, query, demo>>

storeVars == <<topics, log, committed>>
ghostVars == <<handled, commitIssued, api>>
brokerVars == <<topics, log, committed, pending, subscription, position, loops,
                incarnation, faults, nextId, handled, commitIssued, api>>
appVars == <<rest, table, query, demo>>

\* ------------------------------------------------------------------ helpers
\* publish: .payload(&message.payload): the record carries the payload bytes.
ToRecordPayload(payload) == Some(payload)

\* subscribe loop: detached_msg.payload().map_or(Vec::new(), |p| p.to_vec()):
\* a record without payload gives the empty payload.
FromRecordPayload(rpayload) == IF rpayload = None THEN <<>> ELSE rpayload[1]

\* publish: message.key.unwrap_or_default() and .key(&key): the record always
\* carries a key, the absent key becomes the empty one.
ToRecordKey(key) == IF key = None THEN <<>> ELSE key[1]

\* subscribe loop: detached_msg.key().map(|k| k.to_vec()): a record key that is
\* present, even empty, comes back as Some(bytes).
FromRecordKey(rkey) == Some(rkey)

\* Variant: auto.offset.reset = latest, a new group starts at the end of the log.
StartOffset_Latest(t) == IF committed[t] = NoOffset THEN Len(log[t]) ELSE committed[t]

\* auto.offset.reset = earliest: a group without a committed offset starts at 0.
StartOffset(t) == IF committed[t] = NoOffset THEN 0 ELSE committed[t]

\* The facade operation returns r to its caller.
Returns(r) ==
    IF api.rec THEN [api EXCEPT !.last = [r EXCEPT !.seq = 1 - api.last.seq]]
    ELSE api

\* publish returns r after its one producer.send(record, ...).await.
Sent(r) ==
    IF api.rec
    THEN [api EXCEPT !.last = [r EXCEPT !.seq = 1 - api.last.seq],
                     !.sends = @ + 1,
                     !.failed = IF r.ok THEN @ ELSE @ \cup {r.id}]
    ELSE api

\* The consumer the loop spawned now pulls from: Arc::clone(&self.consumer),
\* the one consumer instance the facade created in new().
LoopConsumer == incarnation

\* No task runs the handler: subscribe was not called with it (in this process
\* incarnation). A loop record also keeps what an observer of the handler and
\* of the log output sees:
\*   since        identity of the first publish made after the subscribe call
\*   seen         ids of the messages the task handed to the handler, in call order
\*   running      handler invocations in progress
\*   uncommitted  messages received and no commit requested for yet
\*   errs, panics poll errors logged, handler panics
NoLoop ==
    [topic |-> "", pc |-> "idle", msg |-> NoMsg, consumer |-> -1,
     since |-> 0, seen |-> <<>>, running |-> 0, uncommitted |-> 0,
     errs |-> 0, panics |-> 0]

\* The task tokio::spawn starts: it owns the handler of this subscribe call
\* (topic is the topic that call named) and the consumer clone.
NewLoop(t) ==
    [NoLoop EXCEPT !.topic = t, !.pc = "polling", !.consumer = LoopConsumer,
                   !.since = nextId]

\* What a crash leaves of a task: nothing, the new process has no task yet.
Gone(lp) == NoLoop

RECURSIVE Count(_, _)
Count(x, seq) ==
    IF seq = <<>> THEN 0
    ELSE (IF Head(seq) = x THEN 1 ELSE 0) + Count(x, Tail(seq))

\* ids of the messages the tasks of the running process handed to a handler
Started == {i \in 1..(nextId - 1) : \E h \in Handlers : Count(i, loops[h].seen) > 0}

\* the record with identity i is in the log of topic t
InLog(t, i) == \E n \in 1..Len(log[t]) : log[t][n].id = i

\* the handlers a task was spawned for
LoopIds == {h \in Handlers : loops[h].pc # "idle"}

\* the handlers the next subscribe call can pass: the first one not yet passed
FreshHandlers ==
    {HandlerSeq[n] : n \in {k \in 1..Len(HandlerSeq) :
                               /\ loops[HandlerSeq[k]].pc = "idle"
                               /\ \A j \in 1..(k - 1) : loops[HandlerSeq[j]].pc # "idle"}}


\* The REST service has served no request, the projects table is empty and the
\* channel demo has not been started.
AppInit ==
    /\ rest = NoRequest
    /\ table = <<>>
    /\ query = NoQuery
    /\ demo = DemoStart

Init ==
    /\ topics = {}
    /\ log = [t \in Topics |-> <<>>]
    /\ committed = [t \in Topics |-> NoOffset]
    /\ pending = <<>>
    /\ subscription = {}
    /\ position = 0
    /\ loops = [h \in Handlers |-> NoLoop]
    /\ incarnation = 0
    /\ faults = 0
    /\ nextId = 1
    /\ handled = {}
    /\ commitIssued = {}
    /\ api = NotRecorded
    /\ AppInit

\* ------------------------------------------------------------------ facade
\* create_topic, Ok(results) / Ok(_): the store creates the topic.
CreateTopic(t) ==
    /\ t \notin topics
    /\ topics' = topics \cup {t}
    /\ log' = [log EXCEPT ![t] = <<>>]
    /\ api' = Returns(Result("create_topic", t, TRUE))
    /\ UNCHANGED <<appVars, committed, pending, subscription, position, loops,
                   incarnation, faults, nextId, handled, commitIssued>>

\* Variant: publish hands the record to the producer and returns Ok without
\* awaiting the delivery; the record reaches no log.
Publish_NoAppend(t, message) ==
    /\ t \in topics
    /\ nextId <= MaxMsgs
    /\ nextId' = nextId + 1
    /\ api' = Sent([Result("publish", t, TRUE) EXCEPT !.id = nextId])
    /\ UNCHANGED <<appVars, storeVars, pending, subscription, position, loops,
                   incarnation, faults, handled, commitIssued>>

\* Variant: the store puts the new record in front of the records it has.
Publish_Prepend(t, message) ==
    /\ t \in topics
    /\ nextId <= MaxMsgs
    /\ log' = [log EXCEPT ![t] = <<[id |-> nextId,
                                    key |-> ToRecordKey(message.key),
                                    payload |-> ToRecordPayload(message.payload),
                                    sent |-> message]>> \o @]
    /\ nextId' = nextId + 1
    /\ api' = Sent([Result("publish", t, TRUE) EXCEPT !.id = nextId])
    /\ UNCHANGED <<appVars, topics, committed, pending, subscription, position, loops,
                   incarnation, faults, handled, commitIssued>>

\* publish, Ok(_): the store acknowledged the record.
Publish(t, message) ==
    /\ t \in topics
    /\ nextId <= MaxMsgs
    /\ log' = [log EXCEPT ![t] = Append(@, [id |-> nextId,
                                             key |-> ToRecordKey(message.key),
                                             payload |-> ToRecordPayload(message.payload),
                                             sent |-> message])]
    /\ nextId' = nextId + 1
    /\ api' = Sent([Result("publish", t, TRUE) EXCEPT !.id = nextId])
    /\ UNCHANGED <<appVars, topics, committed, pending, subscription, position, loops,
                   incarnation, faults, handled, commitIssued>>

\* publish, Ok(_), for a topic the store does not know: publish sends the record
\* without looking whether the topic exists, and new() leaves the producer's
\* allow.auto.create.topics at its default, so a store that creates topics on
\* the first write (auto.create.topics.enable) creates the topic and takes
\* the record; a store that does not answers as in PublishErr.
PublishAutoCreate(t, message) ==
    /\ t \notin topics
    /\ nextId <= MaxMsgs
    /\ topics' = topics \cup {t}
    /\ log' = [log EXCEPT ![t] = <<[id |-> nextId,
                                    key |-> ToRecordKey(message.key),
                                    payload |-> ToRecordPayload(message.payload),
                                    sent |-> message]>>]
    /\ nextId' = nextId + 1
    /\ api' = Sent([Result("publish", t, TRUE) EXCEPT !.id = nextId])
    /\ UNCHANGED <<appVars, committed, pending, subscription, position, loops,
                   incarnation, faults, handled, commitIssued>>

\* Variant: subscribe receives the first record itself and calls the handler
\* with it before it returns.
Subscribe_Inline(t, h) ==
    /\ loops[h].pc = "idle"
    /\ t \in topics
    /\ StartOffset(t) < Len(log[t])
    /\ subscription' = {t}
    /\ position' = StartOffset(t) + 1
    /\ LET r == log[t][StartOffset(t) + 1]
           m == [topic |-> t, off |-> StartOffset(t), id |-> r.id,
                 key |-> FromRecordKey(r.key),
                 payload |-> FromRecordPayload(r.payload)]
       IN loops' = [loops EXCEPT ![h] = [NewLoop(t) EXCEPT !.pc = "committing",
                                                             !.msg = m,
                                                             !.seen = <<r.id>>,
                                                             !.uncommitted = 1]]
    /\ handled' = handled \cup {log[t][StartOffset(t) + 1].id}
    /\ api' = Returns([Result("subscribe", t, TRUE) EXCEPT !.handler = h])
    /\ UNCHANGED <<appVars, storeVars, pending, incarnation, faults, nextId, commitIssued>>

\* subscribe: consumer.subscribe(&[topic]) replaces the topic list of the shared
\* consumer (the group rebalances and fetching restarts at the committed offset),
\* then tokio::spawn starts one more loop on that same consumer.
Subscribe(t, h) ==
    /\ loops[h].pc = "idle"
    /\ subscription' = {t}
    /\ position' = StartOffset(t)
    /\ loops' = [loops EXCEPT ![h] = NewLoop(t)]
    /\ api' = Returns([Result("subscribe", t, TRUE) EXCEPT !.handler = h])
    /\ UNCHANGED <<appVars, storeVars, pending, incarnation, faults, nextId, handled,
                   commitIssued>>

\* Variant: creating a topic that exists is a no-op that reports success.
CreateTopicErr_Idempotent(t) ==
    /\ t \in topics
    /\ api' = Returns(Result("create_topic", t, TRUE))
    /\ UNCHANGED <<appVars, storeVars, pending, subscription, position, loops,
                   incarnation, faults, nextId, handled, commitIssued>>

\* create_topic, Ok(results) with results[0] = Err((_, err)): the store refuses
\* to create a topic that exists; nothing changes.
CreateTopicErr(t) ==
    /\ t \in topics
    /\ api' = Returns(Result("create_topic", t, FALSE))
    /\ UNCHANGED <<appVars, storeVars, pending, subscription, position, loops,
                   incarnation, faults, nextId, handled, commitIssued>>

\* Variant: delete_topic reports success and the store keeps the topic.
DeleteTopic_Keep(t) ==
    /\ t \in topics
    /\ api' = Returns(Result("delete_topic", t, TRUE))
    /\ UNCHANGED <<appVars, storeVars, pending, subscription, position, loops,
                   incarnation, faults, nextId, handled, commitIssued>>

\* delete_topic, Ok(results) / Ok(_): the store drops the topic with its records
\* and the offsets committed for it; a consumer subscribed to it loses the
\* partition (and would start at the beginning of a topic created anew).
DeleteTopic(t) ==
    /\ t \in topics
    /\ topics' = topics \ {t}
    /\ log' = [log EXCEPT ![t] = <<>>]
    /\ committed' = [committed EXCEPT ![t] = NoOffset]
    /\ position' = IF t \in subscription THEN 0 ELSE position
    /\ api' = Returns(Result("delete_topic", t, TRUE))
    /\ UNCHANGED <<appVars, pending, subscription, loops, incarnation, faults, nextId,
                   handled, commitIssued>>

\* delete_topic, Ok(results) with results[0] = Err((_, err)): the store knows no
\* such topic; nothing changes.
DeleteTopicErr(t) ==
    /\ t \notin topics
    /\ api' = Returns(Result("delete_topic", t, FALSE))
    /\ UNCHANGED <<appVars, storeVars, pending, subscription, position, loops,
                   incarnation, faults, nextId, handled, commitIssued>>

\* list_topics: fetch_metadata(None, ..) and the names of metadata.topics().
ListTopics ==
    /\ api' = Returns([Result("list_topics", "", TRUE) EXCEPT !.list = topics])
    /\ UNCHANGED <<appVars, storeVars, pending, subscription, position, loops,
                   incarnation, faults, nextId, handled, commitIssued>>

\* list_topics is called: fetch_metadata(None, ..) sends its request.
ListTopicsCall ==
    /\ api.fetch.pc = "idle"
    /\ api' = [api EXCEPT !.fetch = [pc |-> "called", got |-> {}, atCall |-> topics]]
    /\ UNCHANGED <<appVars, storeVars, pending, subscription, position, loops,
                   incarnation, faults, nextId, handled, commitIssued>>

\* Variant: the metadata request is answered from the names the previous
\* list_topics call returned.
ListTopicsFetch_Cached ==
    /\ api.fetch.pc = "called"
    /\ api' = [api EXCEPT !.fetch.pc = "fetched",
                          !.fetch.got = IF api.last.op = "list_topics"
                                        THEN api.last.list ELSE topics]
    /\ UNCHANGED <<appVars, storeVars, pending, subscription, position, loops,
                   incarnation, faults, nextId, handled, commitIssued>>

\* fetch_metadata(None, ..) => Ok(metadata): the store answers the request with
\* the topics it holds at that moment.
ListTopicsFetch ==
    /\ api.fetch.pc = "called"
    /\ api' = [api EXCEPT !.fetch.pc = "fetched", !.fetch.got = topics]
    /\ UNCHANGED <<appVars, storeVars, pending, subscription, position, loops,
                   incarnation, faults, nextId, handled, commitIssued>>

\* list_topics returns Ok with the names of metadata.topics().
ListTopicsReturn ==
    /\ api.fetch.pc = "fetched"
    /\ api' = [Returns([Result("list_topics", "", TRUE) EXCEPT !.list = api.fetch.got])
                  EXCEPT !.fetch.pc = "idle"]
    /\ UNCHANGED <<appVars, storeVars, pending, subscription, position, loops,
                   incarnation, faults, nextId, handled, commitIssued>>

\* Another client of the store creates a topic.
OtherClientCreate(t) ==
    /\ t \notin topics
    /\ topics' = topics \cup {t}
    /\ log' = [log EXCEPT ![t] = <<>>]
    /\ UNCHANGED <<appVars, committed, pending, subscription, position, loops,
                   incarnation, faults, nextId, ghostVars>>

\* Another client of the store deletes a topic.
OtherClientDelete(t) ==
    /\ t \in topics
    /\ topics' = topics \ {t}
    /\ log' = [log EXCEPT ![t] = <<>>]
    /\ committed' = [committed EXCEPT ![t] = NoOffset]
    /\ position' = IF t \in subscription THEN 0 ELSE position
    /\ UNCHANGED <<appVars, pending, subscription, loops, incarnation, faults, nextId,
                   ghostVars>>

\* create_topic, delete_topic, Err(e) of the admin call, and list_topics, Err(e)
\* of fetch_metadata: the request did not get through to the store (it cannot
\* be reached, or the request timed out); error!(...) and Err to the caller.
AdminRequestFails(op, t) ==
    /\ faults < MaxFaults
    /\ faults' = faults + 1
    /\ api' = Returns(Result(op, t, FALSE))
    /\ UNCHANGED <<appVars, storeVars, pending, subscription, position, loops,
                   incarnation, nextId, handled, commitIssued>>

\* create_topic, delete_topic, Ok(results) with an empty results: &results[0]
\* indexes past the end of the vector and panics; the call ends without a value.
AdminResultsEmpty(op, t) ==
    /\ faults < MaxFaults
    /\ faults' = faults + 1
    /\ api' = Returns([Result(op, t, FALSE) EXCEPT !.panicked = TRUE])
    /\ UNCHANGED <<appVars, storeVars, pending, subscription, position, loops,
                   incarnation, nextId, handled, commitIssued>>

\* Variant: after the failed send, publish sends the record once more, and
\* the store takes it when the topic exists.
PublishErr_Retry(t, message) ==
    /\ nextId <= MaxMsgs
    /\ log' = IF t \in topics
              THEN [log EXCEPT ![t] = Append(@, [id |-> nextId,
                                                 key |-> ToRecordKey(message.key),
                                                 payload |-> ToRecordPayload(message.payload),
                                                 sent |-> message])]
              ELSE log
    /\ nextId' = nextId + 1
    /\ api' = [Sent([Result("publish", t, FALSE) EXCEPT !.id = nextId])
                  EXCEPT !.sends = @ + 1]
    /\ UNCHANGED <<appVars, topics, committed, pending, subscription, position, loops,
                   incarnation, faults, handled, commitIssued>>

\* publish, Err((e, _)): the store refused the record (it knows no such topic, or
\* it rejected the write) or the send timed out; error!(...) and Err to the
\* caller. The record is in no log and publish does nothing more with it.
PublishErr(t, message) ==
    /\ nextId <= MaxMsgs
    /\ nextId' = nextId + 1
    /\ api' = Sent([Result("publish", t, FALSE) EXCEPT !.id = nextId])
    /\ UNCHANGED <<appVars, storeVars, pending, subscription, position, loops,
                   incarnation, faults, handled, commitIssued>>

\* subscribe, consumer.subscribe(&[topic]) => Err: map_err(...)? returns the
\* error before anything is spawned.
SubscribeErr(t, h) ==
    /\ loops[h].pc = "idle"
    /\ faults < MaxFaults
    /\ faults' = faults + 1
    /\ api' = Returns([Result("subscribe", t, FALSE) EXCEPT !.handler = h])
    /\ UNCHANGED <<appVars, storeVars, pending, subscription, position, loops,
                   incarnation, nextId, handled, commitIssued>>

\* ------------------------------------------------------------------ loop
\* Variant: the commit is requested as soon as the message is received, before
\* the handler is called.
LoopRecvOk_CommitFirst(l) ==
    /\ loops[l].pc = "polling"
    /\ \E t \in subscription \cap topics :
        /\ position < Len(log[t])
        /\ LET r == log[t][position + 1]
               m == [topic |-> t, off |-> position, id |-> r.id,
                     key |-> FromRecordKey(r.key),
                     payload |-> FromRecordPayload(r.payload)]
           IN /\ loops' = [loops EXCEPT ![l].pc = "handling", ![l].msg = m,
                                        ![l].seen = Append(@, r.id),
                                        ![l].running = @ + 1]
              /\ pending' = Append(pending, [topic |-> t, off |-> position + 1])
              /\ commitIssued' = commitIssued \cup {r.id}
        /\ position' = position + 1
    /\ UNCHANGED <<appVars, storeVars, subscription, incarnation, faults, nextId, handled,
                   api>>

\* Variant: the handler future is started and not awaited, the loop polls on.
LoopRecvOk_NoAwait(l) ==
    /\ loops[l].pc = "polling"
    /\ \E t \in subscription \cap topics :
        /\ position < Len(log[t])
        /\ loops' = [loops EXCEPT ![l].seen = Append(@, log[t][position + 1].id),
                                  ![l].running = @ + 1,
                                  ![l].uncommitted = @ + 1]
        /\ position' = position + 1
    /\ UNCHANGED <<appVars, storeVars, pending, subscription, incarnation, faults, nextId,
                   ghostVars>>

\* Variant: the consumer hands out the record without advancing past it.
LoopRecvOk_NoAdvance(l) ==
    /\ loops[l].pc = "polling"
    /\ Len(loops[l].seen) < MaxMsgs + 1
    /\ \E t \in subscription \cap topics :
        /\ position < Len(log[t])
        /\ LET r == log[t][position + 1]
               m == [topic |-> t, off |-> position, id |-> r.id,
                     key |-> FromRecordKey(r.key),
                     payload |-> FromRecordPayload(r.payload)]
           IN loops' = [loops EXCEPT ![l].pc = "handling", ![l].msg = m,
                                     ![l].seen = Append(@, r.id),
                                     ![l].running = @ + 1,
                                     ![l].uncommitted = @ + 1]
    /\ UNCHANGED <<appVars, storeVars, pending, subscription, position, incarnation, faults,
                   nextId, ghostVars>>

\* consumer.recv().await => Ok(msg): the next record of the assigned partition;
\* the message is built and handler(message) is called.
LoopRecvOk(l) ==
    /\ loops[l].pc = "polling"
    /\ \E t \in subscription \cap topics :
        /\ position < Len(log[t])
        /\ LET r == log[t][position + 1]
               m == [topic |-> t, off |-> position, id |-> r.id,
                     key |-> FromRecordKey(r.key),
                     payload |-> FromRecordPayload(r.payload)]
           IN loops' = [loops EXCEPT ![l].pc = "handling", ![l].msg = m,
                                     ![l].seen = Append(@, r.id),
                                     ![l].running = @ + 1,
                                     ![l].uncommitted = @ + 1]
        /\ position' = position + 1
    /\ UNCHANGED <<appVars, storeVars, pending, subscription, incarnation, faults, nextId,
                   ghostVars>>

\* Variant: a poll error ends the loop in a terminal state.
LoopRecvErr_Failed(l) ==
    /\ loops[l].pc = "polling"
    /\ faults < MaxFaults
    /\ loops' = [loops EXCEPT ![l].errs = @ + 1, ![l].pc = "failed"]
    /\ faults' = faults + 1
    /\ UNCHANGED <<appVars, storeVars, pending, subscription, position, incarnation,
                   nextId, ghostVars>>

\* consumer.recv().await => Err(e): error!(...) and the loop goes round again.
LoopRecvErr(l) ==
    /\ loops[l].pc = "polling"
    /\ faults < MaxFaults
    /\ loops' = [loops EXCEPT ![l].errs = @ + 1]
    /\ faults' = faults + 1
    /\ UNCHANGED <<appVars, storeVars, pending, subscription, position, incarnation,
                   nextId, ghostVars>>

\* Variant: after the handler returned the loop polls again without calling
\* commit_message.
HandlerReturn_SkipCommit(l) ==
    /\ loops[l].pc = "handling"
    /\ loops' = [loops EXCEPT ![l].pc = "polling", ![l].running = @ - 1,
                              ![l].msg = NoMsg]
    /\ handled' = handled \cup {loops[l].msg.id}
    /\ UNCHANGED <<appVars, storeVars, pending, subscription, position, incarnation, faults,
                   nextId, commitIssued, api>>

\* handler(message).await completes.
HandlerReturn(l) ==
    /\ loops[l].pc = "handling"
    /\ loops' = [loops EXCEPT ![l].pc = "committing", ![l].running = @ - 1]
    /\ handled' = handled \cup {loops[l].msg.id}
    /\ UNCHANGED <<appVars, storeVars, pending, subscription, position, incarnation, faults,
                   nextId, commitIssued, api>>

\* handler(message).await panics: the panic unwinds the spawned task, which ends
\* (nothing in the loop catches it); the process and the other tasks go on.
HandlerPanic(l) ==
    /\ loops[l].pc = "handling"
    /\ faults < MaxFaults
    /\ loops' = [loops EXCEPT ![l].pc = "dead", ![l].running = @ - 1,
                              ![l].panics = @ + 1]
    /\ faults' = faults + 1
    /\ UNCHANGED <<appVars, storeVars, pending, subscription, position, incarnation,
                   nextId, ghostVars>>

\* consumer.commit_message(&msg, CommitMode::Async) => Ok: the request for
\* offset msg.offset + 1 is queued; the loop does not wait for the store.
LoopCommitOk(l) ==
    /\ loops[l].pc = "committing"
    /\ pending' = Append(pending, [topic |-> loops[l].msg.topic,
                                   off |-> loops[l].msg.off + 1])
    /\ loops' = [loops EXCEPT ![l].pc = "polling", ![l].uncommitted = @ - 1,
                              ![l].msg = NoMsg]
    /\ commitIssued' = commitIssued \cup {loops[l].msg.id}
    /\ UNCHANGED <<appVars, storeVars, subscription, position, incarnation, faults, nextId,
                   handled, api>>

\* Variant: a commit error ends the loop in a terminal state.
LoopCommitErr_Failed(l) ==
    /\ loops[l].pc = "committing"
    /\ faults < MaxFaults
    /\ loops' = [loops EXCEPT ![l].pc = "failed", ![l].uncommitted = @ - 1,
                              ![l].msg = NoMsg]
    /\ commitIssued' = commitIssued \cup {loops[l].msg.id}
    /\ faults' = faults + 1
    /\ UNCHANGED <<appVars, storeVars, pending, subscription, position, incarnation,
                   nextId, handled, api>>

\* consumer.commit_message(...) => Err(e): error!(...) and the loop goes on.
LoopCommitErr(l) ==
    /\ loops[l].pc = "committing"
    /\ faults < MaxFaults
    /\ loops' = [loops EXCEPT ![l].pc = "polling", ![l].uncommitted = @ - 1,
                              ![l].msg = NoMsg]
    /\ commitIssued' = commitIssued \cup {loops[l].msg.id}
    /\ faults' = faults + 1
    /\ UNCHANGED <<appVars, storeVars, pending, subscription, position, incarnation,
                   nextId, handled, api>>

\* ------------------------------------------------------------------ store
\* The store applies the oldest queued commit request: the group's offset for
\* the topic becomes the requested one (a request for a topic that does not
\* exist is refused; the client only logs the outcome of an async commit).
StoreApplyCommit ==
    /\ pending # <<>>
    /\ committed' = IF Head(pending).topic \in topics
                     THEN [committed EXCEPT ![Head(pending).topic] = Head(pending).off]
                     ELSE committed
    /\ pending' = Tail(pending)
    /\ UNCHANGED <<appVars, topics, log, subscription, position, loops, incarnation, faults,
                   nextId, ghostVars>>

\* The process crashes and is started again: its tasks, its consumer and the
\* commit requests still queued in it are gone; the store keeps its state.
Crash ==
    /\ faults < MaxFaults
    /\ LoopIds # {}
    /\ incarnation' = incarnation + 1
    /\ loops' = [h \in Handlers |-> Gone(loops[h])]
    /\ pending' = <<>>
    /\ subscription' = {}
    /\ position' = 0
    /\ faults' = faults + 1
    /\ UNCHANGED <<appVars, storeVars, nextId, ghostVars>>

Next ==
    \/ \E t \in Topics : CreateTopic(t)
    \/ \E t \in Topics : Publish(t, TestMessage)
    \/ \E t \in Topics, h \in FreshHandlers : Subscribe(t, h)
    \/ \E l \in LoopIds : LoopRecvOk(l)
    \/ \E l \in LoopIds : LoopRecvErr(l)
    \/ \E l \in LoopIds : HandlerReturn(l)
    \/ \E l \in LoopIds : HandlerPanic(l)
    \/ \E l \in LoopIds : LoopCommitOk(l)
    \/ \E l \in LoopIds : LoopCommitErr(l)
    \/ StoreApplyCommit
    \/ Crash

Spec == Init /\ [][Next]_vars

\* ------------------------------------------------------------------ scenarios
\* One step of loop l when nothing fails: receive, handler returns, commit.
LoopStep(l) ==
    /\ l \in LoopIds
    /\ (LoopRecvOk(l) \/ HandlerReturn(l) \/ LoopCommitOk(l))

\* The tokio runtime keeps polling every spawned task and the store serves
\* every request: a loop step, and a queued commit, that stays possible is taken.
Fairness ==
    /\ \A l \in Handlers : WF_vars(LoopStep(l))
    /\ WF_vars(StoreApplyCommit)

\* subscribe for a topic no earlier subscribe call of this facade named
SubscribeOther(t, h) ==
    /\ \A l \in LoopIds : loops[l].topic # t
    /\ Subscribe(t, h)

\* Failure-free runs of one facade whose subscriptions are for different topics.
NextIndep ==
    \/ \E t \in Topics : CreateTopic(t)
    \/ \E t \in Topics, m \in Messages : Publish(t, m)
    \/ \E t \in Topics, h \in FreshHandlers : SubscribeOther(t, h)
    \/ \E l \in LoopIds : LoopRecvOk(l)
    \/ \E l \in LoopIds : HandlerReturn(l)
    \/ \E l \in LoopIds : LoopCommitOk(l)
    \/ StoreApplyCommit

IndepSpec == Init /\ [][NextIndep]_vars /\ Fairness

\* the one subscribe call of a facade that holds a single subscription
SubscribeOnce(t, h) ==
    /\ LoopIds = {}
    /\ Subscribe(t, h)

\* Failure-free runs of one facade with a single subscription (the integration
\* test's setting: test_publish_and_subscribe).
NextSingle ==
    \/ \E t \in Topics : CreateTopic(t)
    \/ \E t \in Topics, m \in Messages : Publish(t, m)
    \/ \E t \in Topics, h \in FreshHandlers : SubscribeOnce(t, h)
    \/ \E l \in LoopIds : LoopRecvOk(l)
    \/ \E l \in LoopIds : HandlerReturn(l)
    \/ \E l \in LoopIds : LoopCommitOk(l)
    \/ StoreApplyCommit

SingleSpec == Init /\ [][NextSingle]_vars /\ Fairness

\* subscribe for the topic the earlier subscribe calls of this facade named
SubscribeSame(t, h) ==
    /\ \A l \in LoopIds : loops[l].topic = t
    /\ Subscribe(t, h)

\* Failure-free runs of one facade whose subscriptions (two handlers, one
\* group) are all for the same single-partition topic.
NextPair ==
    \/ \E t \in Topics : CreateTopic(t)
    \/ \E t \in Topics : Publish(t, TestMessage)
    \/ \E t \in Topics, h \in FreshHandlers : SubscribeSame(t, h)
    \/ \E l \in LoopIds : LoopRecvOk(l)
    \/ \E l \in LoopIds : HandlerReturn(l)
    \/ \E l \in LoopIds : LoopCommitOk(l)
    \/ StoreApplyCommit

PairSpec == Init /\ [][NextPair]_vars /\ Fairness

\* The state after construction of a facade whose callers keep the results.
InitApi ==
    /\ topics = {}
    /\ log = [t \in Topics |-> <<>>]
    /\ committed = [t \in Topics |-> NoOffset]
    /\ pending = <<>>
    /\ subscription = {}
    /\ position = 0
    /\ loops = [h \in Handlers |-> NoLoop]
    /\ incarnation = 0
    /\ faults = 0
    /\ nextId = 1
    /\ handled = {}
    /\ commitIssued = {}
    /\ api = NoCalls
    /\ AppInit

\* Runs of one facade with a single subscription, whose loop meets no failure,
\* seen by callers that keep the result of every operation: the topic
\* operations and publish, with their error results, against a store of either
\* configuration (topics created on the first write, or not).
NextAdmin ==
    \/ \E t \in Topics : CreateTopic(t)
    \/ \E t \in Topics : CreateTopicErr(t)
    \/ \E t \in Topics : DeleteTopic(t)
    \/ \E t \in Topics : DeleteTopicErr(t)
    \/ ListTopics
    \/ \E t \in Topics : AdminRequestFails("create_topic", t)
    \/ \E t \in Topics : AdminRequestFails("delete_topic", t)
    \/ AdminRequestFails("list_topics", "")
    \/ \E t \in Topics : AdminResultsEmpty("create_topic", t)
    \/ \E t \in Topics : AdminResultsEmpty("delete_topic", t)
    \/ \E t \in Topics : Publish(t, TestMessage)
    \/ \E t \in Topics : PublishErr(t, TestMessage)
    \/ \E t \in Topics : PublishAutoCreate(t, TestMessage)
    \/ \E t \in Topics, h \in FreshHandlers : SubscribeOnce(t, h)
    \/ \E l \in LoopIds : LoopRecvOk(l)
    \/ \E l \in LoopIds : HandlerReturn(l)
    \/ \E l \in LoopIds : LoopCommitOk(l)
    \/ StoreApplyCommit

AdminSpec == InitApi /\ [][NextAdmin]_vars

\* Runs of one facade with a single subscription, seen by the caller of
\* subscribe: the subscribe call with its results, the publishes, and the loop
\* with its failures.
NextSub ==
    \/ \E t \in Topics : CreateTopic(t)
    \/ \E t \in Topics : Publish(t, TestMessage)
    \/ \E t \in Topics, h \in FreshHandlers : SubscribeOnce(t, h)
    \/ \E t \in Topics, h \in FreshHandlers : SubscribeErr(t, h)
    \/ \E l \in LoopIds : LoopRecvOk(l)
    \/ \E l \in LoopIds : LoopRecvErr(l)
    \/ \E l \in LoopIds : HandlerReturn(l)
    \/ \E l \in LoopIds : HandlerPanic(l)
    \/ \E l \in LoopIds : LoopCommitOk(l)
    \/ \E l \in LoopIds : LoopCommitErr(l)
    \/ StoreApplyCommit

SubSpec == InitApi /\ [][NextSub]_vars

\* Runs in which list_topics calls of the facade, told apart into call, answer
\* of the store and return, overlap with topic creations and deletions made
\* through the facade and by other clients, and with publishes.
NextList ==
    \/ \E t \in Topics : CreateTopic(t)
    \/ \E t \in Topics : DeleteTopic(t)
    \/ \E t \in Topics : OtherClientCreate(t)
    \/ \E t \in Topics : OtherClientDelete(t)
    \/ \E t \in Topics : Publish(t, TestMessage)
    \/ ListTopicsCall
    \/ ListTopicsFetch
    \/ ListTopicsReturn

ListSpec == InitApi /\ [][NextList]_vars

\* ------------------------------------------------------------------ REST service
\* str::trim: the string without its leading and trailing whitespace.
RECURSIVE TrimStart(_)
TrimStart(str) ==
    IF str # <<>> /\ Head(str) = " " THEN TrimStart(Tail(str)) ELSE str

RECURSIVE TrimEnd(_)
TrimEnd(str) ==
    IF str # <<>> /\ str[Len(str)] = " "
    THEN TrimEnd(SubSeq(str, 1, Len(str) - 1)) ELSE str

Trim(str) == TrimEnd(TrimStart(str))

\* Variant: the check is is_empty() on the string as sent.
IsBlank_NoTrim(str) == str = <<>>

\* payload.name.trim().is_empty()
IsBlank(str) == Trim(str) = <<>>

\* create_project handler, first check: the name is blank, 400.
CreateProjectBadName(payload) ==
    /\ IsBlank(payload.name)
    /\ rest' = [NoRequest EXCEPT !.served = TRUE, !.name = payload.name,
                                 !.description = payload.description,
                                 !.status = 400,
                                 !.message = "Project name cannot be empty"]
    /\ UNCHANGED <<brokerVars, table, query, demo>>

\* create_project handler, second check: the description is blank, 400.
CreateProjectBadDescription(payload) ==
    /\ ~IsBlank(payload.name)
    /\ IsBlank(payload.description)
    /\ rest' = [NoRequest EXCEPT !.served = TRUE, !.name = payload.name,
                                 !.description = payload.description,
                                 !.status = 400,
                                 !.message = "Project description cannot be empty"]
    /\ UNCHANGED <<brokerVars, table, query, demo>>

\* create_project handler, repo.create_project(..).await is Ok(project): the
\* INSERT .. RETURNING * adds the row (it is the newest) and the handler
\* answers Ok(Json(project)).
CreateProjectOk(payload) ==
    /\ ~IsBlank(payload.name)
    /\ ~IsBlank(payload.description)
    /\ Len(table) < MaxProjects
    /\ LET project == [id |-> Len(table) + 1, name |-> payload.name,
                       description |-> payload.description]
       IN /\ table' = <<project>> \o table
          /\ rest' = [NoRequest EXCEPT !.served = TRUE, !.name = payload.name,
                                       !.description = payload.description,
                                       !.repoCalls = <<[name |-> payload.name,
                                                        description |-> payload.description]>>,
                                       !.repoOk = TRUE,
                                       !.status = 200,
                                       !.body = project]
    /\ UNCHANGED <<brokerVars, query, demo>>

\* create_project handler, repo.create_project(..).await is Err: map_err turns
\* the error into a StatusCode and unwrap() on that Err panics.
CreateProjectRepoErr(payload) ==
    /\ ~IsBlank(payload.name)
    /\ ~IsBlank(payload.description)
    /\ rest' = [NoRequest EXCEPT !.served = TRUE, !.name = payload.name,
                                 !.description = payload.description,
                                 !.repoCalls = <<[name |-> payload.name,
                                                  description |-> payload.description]>>,
                                 !.panicked = TRUE]
    /\ UNCHANGED <<brokerVars, table, query, demo>>

\* ------------------------------------------------------------------ project queries
\* let offset = (page - 1) * page_size, in i64: the product before it is cut to
\* 64 bits (page.lo >= 1 for every page queried).
OffsetProduct(page, page_size) == I64(page.hi * page_size, (page.lo - 1) * page_size)

\* the product does not fit in an i64
OffsetOverflows(page, page_size) == OffsetProduct(page, page_size).hi >= 8

\* the product as a build without overflow checks computes it: modulo 2^64
Offset(page, page_size) ==
    I64(OffsetProduct(page, page_size).hi % 16, OffsetProduct(page, page_size).lo)

Negative(v) == v.hi >= 8

Min(a, b) == IF a <= b THEN a ELSE b

\* SELECT * FROM projects ORDER BY created_at DESC LIMIT n OFFSET off, for
\* off >= 0 and n >= 0: the rows of the newest-first table from 0-based
\* position off on, n at most.
SelectRows(tbl, n, off) ==
    IF off.hi > 0 THEN <<>>
    ELSE SubSeq(tbl, off.lo + 1, Min(off.lo + n, Len(tbl)))

\* get_projects(pool, page, page_size). checked: the build has overflow checks
\* (a debug build), so an overflowing multiplication panics; without them it
\* wraps. The database refuses a negative OFFSET and fetch_all(..).await? then
\* returns the error.
GetProjects(page, page_size, checked) ==
    /\ query' =
          IF OffsetOverflows(page, page_size) /\ checked
          THEN [NoQuery EXCEPT !.page = page, !.page_size = page_size,
                               !.outcome = "panic"]
          ELSE IF Negative(Offset(page, page_size))
          THEN [NoQuery EXCEPT !.page = page, !.page_size = page_size,
                               !.outcome = "err"]
          ELSE [NoQuery EXCEPT !.page = page, !.page_size = page_size,
                               !.outcome = "ok",
                               !.rows = SelectRows(table, page_size,
                                                   Offset(page, page_size))]
    /\ UNCHANGED <<brokerVars, rest, table, demo>>

\* Runs of the REST service: create_project requests with any payload, the
\* repository succeeding or failing.
NextRest ==
    \/ \E payload \in Payloads : CreateProjectBadName(payload)
    \/ \E payload \in Payloads : CreateProjectBadDescription(payload)
    \/ \E payload \in Payloads : CreateProjectOk(payload)
    \/ \E payload \in Payloads : CreateProjectRepoErr(payload)

RestSpec == Init /\ [][NextRest]_vars

\* Runs in which projects are created and get_projects queries are made on
\* the table, by a build with or without overflow checks.
NextQuery ==
    \/ \E payload \in Payloads : CreateProjectOk(payload)
    \/ \E page \in Pages, page_size \in PageSizes, checked \in BOOLEAN :
          GetProjects(page, page_size, checked)

QuerySpec == Init /\ [][NextQuery]_vars

\* ------------------------------------------------------------------ channel demo
\* The server binary: main spawns the server task, the executor tasks and the
\* manager, and awaits their handles.
DemoUnchanged == UNCHANGED <<brokerVars, rest, table, query>>

\* task::spawn(run_server(server_rx))
MainSpawnServer ==
    /\ demo.main.pc = "spawn_server"
    /\ demo' = [demo EXCEPT !.task[ServerTask].pc = "recv",
                            !.main.pc = IF num_executors > 0 THEN "spawn_executor"
                                        ELSE "spawn_manager"]
    /\ DemoUnchanged

\* one turn of for i in 0..num_executors: the channel of executor i and
\* task::spawn(run_executor(executor_rx, i))
MainSpawnExecutor ==
    /\ demo.main.pc = "spawn_executor"
    /\ demo' = [demo EXCEPT !.task[demo.main.n].pc = "recv",
                            !.main.n = IF demo.main.n + 1 < num_executors
                                       THEN demo.main.n + 1 ELSE 1,
                            !.main.pc = IF demo.main.n + 1 < num_executors
                                        THEN "spawn_executor" ELSE "spawn_manager"]
    /\ DemoUnchanged

\* task::spawn(run_manager(server_tx, executor_txs)): the senders move into
\* the manager; main goes on to join_all.
MainSpawnManager ==
    /\ demo.main.pc = "spawn_manager"
    /\ demo' = [demo EXCEPT !.manager.pc = "send_server",
                            !.main = [pc |-> "join", n |-> 1]]
    /\ DemoUnchanged

\* the task behind handle h has finished
Finished(h) ==
    IF h = ManagerTask THEN demo.manager.pc = "done" ELSE demo.task[h].pc = "done"

\* join_all: handle.await of the next handle completes once its task has
\* finished; after the last one main returns.
JoinAll ==
    /\ demo.main.pc = "join"
    /\ Finished(JoinOrder[demo.main.n])
    /\ demo' = [demo EXCEPT !.main =
                    IF demo.main.n < Len(JoinOrder)
                    THEN [pc |-> "join", n |-> demo.main.n + 1]
                    ELSE [pc |-> "returned", n |-> demo.main.n]]
    /\ DemoUnchanged

\* tx.send(msg).await to receiver r can complete: the receiver is gone (Err)
\* or the channel has room; a full channel keeps the sender waiting.
CanSend(r) == demo.task[r].pc = "done" \/ Len(demo.chan[r]) < Capacity

\* the demo after tx.send(msg).await to r completed: the message is queued
\* behind the ones in the channel, or the send failed and the manager printed
\* its failure line.
Send(d, r, msg) ==
    IF d.task[r].pc = "done"
    THEN [d EXCEPT !.manager.failed = TRUE]
    ELSE [d EXCEPT !.chan[r] = Append(@, msg)]

\* run_manager: server_tx.send(format!("Message {}", i)).await
RunManagerSendServer ==
    /\ demo.manager.pc = "send_server"
    /\ CanSend(ServerTask)
    /\ demo' = [Send(demo, ServerTask, ServerMessage(demo.manager.i))
                    EXCEPT !.manager.pc = IF num_executors > 0 THEN "send_executor"
                                          ELSE "sleep",
                           !.manager.e = 0]
    /\ DemoUnchanged

\* run_manager: one turn of for (index, executor_tx) in executor_txs
RunManagerSendExecutor ==
    /\ demo.manager.pc = "send_executor"
    /\ CanSend(demo.manager.e)
    /\ demo' = [Send(demo, demo.manager.e, ExecutorMessage(demo.manager.i))
                    EXCEPT !.manager.pc = IF demo.manager.e + 1 < num_executors
                                          THEN "send_executor" ELSE "sleep",
                           !.manager.e = IF demo.manager.e + 1 < num_executors
                                         THEN demo.manager.e + 1 ELSE 0]
    /\ DemoUnchanged

\* run_manager: sleep(2s) is over, and the senders outlive the function
RunManagerSleep_KeepSenders ==
    /\ demo.manager.pc = "sleep"
    /\ demo' = [demo EXCEPT !.manager.i = @ + 1,
                            !.manager.pc = IF demo.manager.i + 1 < Rounds
                                           THEN "send_server" ELSE "done"]
    /\ DemoUnchanged

\* run_manager: sleep(2s) is over; the next round starts, or after the last
\* round the function returns and its senders are dropped, which closes every
\* channel.
RunManagerSleep ==
    /\ demo.manager.pc = "sleep"
    /\ demo' = [demo EXCEPT !.manager.i = @ + 1,
                            !.manager.pc = IF demo.manager.i + 1 < Rounds
                                           THEN "send_server" ELSE "done",
                            !.open = IF demo.manager.i + 1 < Rounds THEN @
                                     ELSE [r \in Receivers |-> FALSE]]
    /\ DemoUnchanged

\* run_server / run_executor: rx.recv().await completes with Some(message),
\* the oldest message in the channel, or with None once the channel is empty
\* and its sender dropped; else it stays pending.
RunReceiverRecv(r) ==
    /\ demo.task[r].pc = "recv"
    /\ demo.chan[r] # <<>> \/ ~demo.open[r]
    /\ demo' = IF demo.chan[r] # <<>>
               THEN [demo EXCEPT !.task[r].received = Append(@, Head(demo.chan[r])),
                                 !.task[r].pc = "processing",
                                 !.chan[r] = Tail(@)]
               ELSE [demo EXCEPT !.task[r].pc = "done"]
    /\ DemoUnchanged

\* run_server / run_executor: sleep(1s) is over and the loop turns
RunReceiverSleep(r) ==
    /\ demo.task[r].pc = "processing"
    /\ demo' = [demo EXCEPT !.task[r].pc = "recv"]
    /\ DemoUnchanged

MainStep == MainSpawnServer \/ MainSpawnExecutor \/ MainSpawnManager \/ JoinAll
ManagerStep == RunManagerSendServer \/ RunManagerSendExecutor \/ RunManagerSleep
ReceiverStep(r) == RunReceiverRecv(r) \/ RunReceiverSleep(r)

NextDemo ==
    \/ MainSpawnServer
    \/ MainSpawnExecutor
    \/ MainSpawnManager
    \/ JoinAll
    \/ RunManagerSendServer
    \/ RunManagerSendExecutor
    \/ RunManagerSleep
    \/ \E r \in Receivers : RunReceiverRecv(r)
    \/ \E r \in Receivers : RunReceiverSleep(r)

\* The runtime polls every task that can make progress, and every sleep ends.
DemoFairness ==
    /\ WF_vars(MainStep)
    /\ WF_vars(ManagerStep)
    /\ \A r \in Receivers : WF_vars(ReceiverStep(r))

DemoSpec == Init /\ [][NextDemo]_vars /\ DemoFairness

\* ------------------------------------------------------------------ claims
\* the task of handler l runs
Alive(l) == loops[l].pc \in {"polling", "handling", "committing"}

\* C1: a loop whose handler invocation for a message has not returned has not
\* requested the commit for that message; every message a commit was requested
\* for had its handler return before.
C1_CommitAfterHandle ==
    /\ \A l \in LoopIds : loops[l].pc = "handling" => loops[l].uncommitted >= 1
    /\ commitIssued \subseteq handled

\* C1 witness: a commit was requested for one message and a handler is running
\* on another delivery.
C1_Witness ==
    /\ commitIssued # {}
    /\ \E l \in LoopIds : loops[l].pc = "handling" /\ loops[l].msg.id \notin commitIssued

\* C2 (as claimed): the offset committed for a topic never passes a record
\* whose handler has not completed.
C2_Original ==
    \A t \in Topics : \A n \in 1..Len(log[t]) :
        (committed[t] # NoOffset /\ n - 1 < committed[t]) => log[t][n].id \in handled

\* C3 (as claimed): when a record of a topic has been handed to a handler, every
\* record before it in that topic's log was handled and had its commit requested.
C3_Original ==
    \A t \in Topics : \A i, j \in 1..Len(log[t]) :
        (i < j /\ log[t][j].id \in Started)
            => (log[t][i].id \in handled /\ log[t][i].id \in commitIssued)

\* C4: a loop never has two handler invocations in progress, and while it is
\* polling none is in progress.
C4_OneAtATime ==
    \A l \in LoopIds :
        /\ loops[l].running <= 1
        /\ loops[l].pc = "polling" => loops[l].running = 0

\* C4 witness: a handler is running while the next record is already waiting
\* in the log, and the loop does not poll.
C4_Witness ==
    \E l \in LoopIds :
        /\ loops[l].pc = "handling" /\ loops[l].running = 1
        /\ \E t \in subscription \cap topics : position < Len(log[t])

C6_Original ==
    \A l \in LoopIds : loops[l].panics > 0 => Alive(l)

\* C7 (as claimed): no two live loops use the same consumer instance.
C7_Original ==
    \A l1, l2 \in LoopIds :
        (l1 # l2 /\ Alive(l1) /\ Alive(l2)) => loops[l1].consumer # loops[l2].consumer

\* the handler of loop l was called n times with the message of identity i
HandedTimes(l, i) == Count(i, loops[l].seen)

\* C8 (as claimed): every record published to the topic of a subscription after
\* that subscription was made is eventually handed to that subscription's
\* handler, whatever subscribe calls for other topics follow.
C8_Original ==
    \A l \in Handlers : \A i \in 1..MaxMsgs :
        (l \in LoopIds /\ i >= loops[l].since /\ InLog(loops[l].topic, i))
            ~> (l \in LoopIds /\ HandedTimes(l, i) > 0)

\* C9: with one subscription under a group that has no committed offset, every
\* record that was in the topic before the subscribe call is handed to the
\* handler, and never twice.
C9_EarlierExactlyOnce ==
    /\ [](\A l \in LoopIds : \A i \in 1..MaxMsgs :
            i < loops[l].since => HandedTimes(l, i) <= 1)
    /\ \A i \in 1..MaxMsgs :
        \A l \in Handlers :
            (l \in LoopIds /\ i < loops[l].since /\ InLog(loops[l].topic, i))
                ~> (l \in LoopIds /\ HandedTimes(l, i) = 1)

\* C9 witness: a record published before the subscribe call was handed to the
\* handler once and its commit was requested.
C9_Witness ==
    \E l \in LoopIds : \E i \in 1..MaxMsgs :
        /\ i < loops[l].since /\ InLog(loops[l].topic, i)
        /\ HandedTimes(l, i) = 1 /\ i \in commitIssued

\* C10: with one subscription, every record published to its topic after the
\* subscribe call is eventually handed to the handler, and one publish never
\* results in two handler invocations.
C10_PublishedHandledOnce ==
    /\ [](\A l \in LoopIds : \A i \in 1..MaxMsgs :
            i >= loops[l].since => HandedTimes(l, i) <= 1)
    /\ \A i \in 1..MaxMsgs :
        \A l \in Handlers :
            (l \in LoopIds /\ i >= loops[l].since /\ InLog(loops[l].topic, i))
                ~> (l \in LoopIds /\ HandedTimes(l, i) = 1)

\* C10 witness: a record published after the subscribe call was handed to the
\* handler once and the handler returned.
C10_Witness ==
    \E l \in LoopIds : \E i \in 1..MaxMsgs :
        /\ i >= loops[l].since /\ InLog(loops[l].topic, i)
        /\ HandedTimes(l, i) = 1 /\ i \in handled

\* the record the store keeps for the publish call of identity i
RecordOf(i) ==
    CHOOSE r \in UNION {{log[t][n] : n \in 1..Len(log[t])} : t \in Topics} : r.id = i

\* the PubSubMessage the publish call of identity i was given
PublishedMessage(i) == RecordOf(i).sent

\* C11 (as claimed): the message a handler is called with has the key (absent
\* stays absent) and the payload of the message that was published.
C11_Original ==
    \A l \in LoopIds :
        loops[l].msg # NoMsg =>
            /\ loops[l].msg.key = PublishedMessage(loops[l].msg.id).key
            /\ loops[l].msg.payload = PublishedMessage(loops[l].msg.id).payload

\* the messages handed to handler l so far contain the one of identity i
SeenBy(l, i) == HandedTimes(l, i) > 0

\* C12: with one subscription, two messages of a topic that were published with
\* the same key, the first publish returning before the second was called, reach
\* the handler in that order: the later one is never handed over before, or
\* without, the earlier one.
C12_SameKeyInOrder ==
    \A l \in LoopIds :
        /\ \A a, b \in 1..Len(loops[l].seen) :
            (a < b /\ PublishedMessage(loops[l].seen[a]).key
                        = PublishedMessage(loops[l].seen[b]).key)
                => loops[l].seen[a] < loops[l].seen[b]
        /\ \A i, j \in 1..(nextId - 1) :
            (/\ i < j
             /\ InLog(loops[l].topic, i) /\ InLog(loops[l].topic, j)
             /\ PublishedMessage(i).key = PublishedMessage(j).key
             /\ SeenBy(l, j))
                => SeenBy(l, i)

\* C12 witness: a handler was called with two messages of its topic that carry
\* the same key.
C12_Witness ==
    \E l \in LoopIds :
        /\ Len(loops[l].seen) = 2
        /\ loops[l].seen[1] # loops[l].seen[2]
        /\ PublishedMessage(loops[l].seen[1]).key = PublishedMessage(loops[l].seen[2]).key
        /\ loops[l].pc = "committing"

\* handler invocations, over the handlers in S, with the message of identity i
RECURSIVE TotalHanded(_, _)
TotalHanded(S, i) ==
    IF S = {} THEN 0
    ELSE LET l == CHOOSE x \in S : TRUE
         IN HandedTimes(l, i) + TotalHanded(S \ {l}, i)

\* both subscriptions exist, for the same topic, and the message of identity i
\* was published to that topic after both subscribe calls
AfterBoth(i) ==
    /\ LoopIds = Handlers
    /\ \A l \in Handlers : i >= loops[l].since /\ InLog(loops[l].topic, i)

ReturnOf(op) == api'.last.seq # api.last.seq /\ api'.last.op = op

\* C14 (as claimed): a publish call that names a topic that does not exist
\* returns Err and leaves every log and the set of topics as they were; the
\* message of a publish call that returned Err is never handed to a handler.
C14_Original ==
    /\ [][(ReturnOf("publish") /\ api'.last.topic \notin topics)
              => (~api'.last.ok /\ UNCHANGED <<topics, log>>)]_vars
    /\ [](\A i \in api.failed : \A l \in Handlers : ~SeenBy(l, i))

\* C15: the step in which publish returns Ok is the step in which the store
\* appends the record to the topic's log, and once publish(T, M) has returned Ok
\* the record of M is in T's log.
C15_OkOnlyAfterAck ==
    /\ [][(ReturnOf("publish") /\ api'.last.ok)
              => LET t == api'.last.topic
                 IN /\ Len(log'[t]) = Len(log[t]) + 1
                    /\ log'[t][Len(log'[t])].id = api'.last.id
                    /\ SubSeq(log'[t], 1, Len(log[t])) = log[t]]_vars
    /\ []((api.last.op = "publish" /\ api.last.ok)
              => InLog(api.last.topic, api.last.id))

\* C15 witness: publish returned Ok and the record is in the log of the topic,
\* not yet handed to the handler subscribed for it.
C15_Witness ==
    /\ api.last.op = "publish" /\ api.last.ok
    /\ InLog(api.last.topic, api.last.id)
    /\ \E l \in LoopIds : loops[l].topic = api.last.topic /\ ~SeenBy(l, api.last.id)

\* C16: every publish call makes one send; a publish call that returns Err
\* leaves every log as it was, and its message is never in any log later.
C16_OneSendNoRetry ==
    /\ [](api.sends = nextId - 1)
    /\ [][(ReturnOf("publish") /\ ~api'.last.ok)
              => (api'.sends = api.sends + 1 /\ UNCHANGED log)]_vars
    /\ [](\A i \in api.failed : \A t \in Topics : ~InLog(t, i))

\* C16 witness: a publish to an existing topic that holds an earlier record
\* returned Err, and the loop has since handled that earlier record.
C16_Witness ==
    /\ api.last.op = "publish" /\ ~api.last.ok /\ api.last.topic \in topics
    /\ log[api.last.topic] # <<>>
    /\ handled # {}

\* the store answered the admin request of this step
Served == faults' = faults

\* C17: a create_topic call the store answers returns Ok exactly when the topic
\* does not exist, and then the topic exists; when create_topic returns Err (for
\* a topic that exists already, always), the set of topics and every log are
\* as before.
C17_CreateNotIdempotent ==
    [][ReturnOf("create_topic")
          => LET t == api'.last.topic
             IN /\ Served => (api'.last.ok <=> (t \notin topics))
                /\ (t \in topics) => ~api'.last.ok
                /\ api'.last.ok => (t \in topics')
                /\ ~api'.last.ok => UNCHANGED <<topics, log>>]_vars

\* C17 witness: create_topic for a topic that exists and holds a record
\* returned Err.
C17_Witness ==
    /\ api.last.op = "create_topic" /\ ~api.last.ok
    /\ api.last.topic \in topics /\ log[api.last.topic] # <<>>

\* C18: a list_topics call that returns Ok returns the topics that exist; a
\* create_topic that returns Ok adds its topic to them and nothing else; a
\* delete_topic call the store answers returns Ok for every topic that exists,
\* and a delete_topic that returns Ok removes its topic and no other.
C18_LifecycleVisible ==
    /\ []((api.last.op = "list_topics" /\ api.last.ok) => api.last.list = topics)
    /\ [][(ReturnOf("create_topic") /\ api'.last.ok)
              => topics' = topics \cup {api'.last.topic}]_vars
    /\ [][ReturnOf("delete_topic")
              => /\ Served => (api'.last.ok <=> (api'.last.topic \in topics))
                 /\ api'.last.ok => (/\ api'.last.topic \in topics
                                     /\ topics' = topics \ {api'.last.topic})
                 /\ ~api'.last.ok => topics' = topics]_vars

\* C18 witness: list_topics returned the other topic only, after the topic a
\* handler got a record from was deleted.
C18_Witness ==
    /\ api.last.op = "list_topics" /\ api.last.ok /\ api.last.list # {}
    /\ \E l \in LoopIds : loops[l].seen # <<>> /\ loops[l].topic \notin api.last.list

\* C19: the step in which subscribe returns hands no message to the handler
\* passed and completes no handler invocation; it returns Ok exactly when the
\* loop for that handler was started, polling; and no step of a loop (poll
\* result, handler return or panic, commit result) changes what a caller got.
C19_ReturnsAtRegistration ==
    /\ [][ReturnOf("subscribe")
              => LET h == api'.last.handler
                 IN /\ loops'[h].seen = <<>> /\ loops'[h].msg = NoMsg
                    /\ handled' = handled
                    /\ api'.last.ok <=> (loops'[h].pc = "polling")
                    /\ ~api'.last.ok => loops'[h] = NoLoop]_vars
    /\ [][(\E l \in LoopIds : loops'[l] # loops[l]) => api' = api]_vars

\* C19 witness: subscribe returned Ok while nothing was published to any topic,
\* and the loop it started is polling.
C19_Witness ==
    /\ api.last.op = "subscribe" /\ api.last.ok
    /\ \A t \in Topics : log[t] = <<>>
    /\ loops[api.last.handler].pc = "polling"

\* C20 (as claimed): a subscribe call that names a topic that does not exist
\* returns Err and starts no loop.
C20_Original ==
    [][(ReturnOf("subscribe") /\ api'.last.topic \notin topics)
          => (~api'.last.ok /\ loops' = loops)]_vars

\* C21: the names a list_topics call returns are the ones the store answered
\* its metadata request with, and that answer, given between the call and the
\* return, is the set of topics the store holds at that instant, whoever
\* created or deleted them and whatever an earlier call returned.
C21_ListIsLive ==
    /\ [][(api.fetch.pc = "called" /\ api'.fetch.pc = "fetched")
              => api'.fetch.got = topics]_vars
    /\ [][ReturnOf("list_topics")
              => (/\ api.fetch.pc = "fetched"
                  /\ api'.last.ok
                  /\ api'.last.list = api.fetch.got)]_vars
    /\ [][api'.fetch.pc = "fetched" => api.fetch.pc \in {"called", "fetched"}]_vars

\* C21 witness: list_topics returned a set that differs from the topics at the
\* time of the call, because another client created a topic in between.
C21_Witness ==
    /\ api.last.op = "list_topics" /\ api.fetch.pc = "idle"
    /\ api.last.list # api.fetch.atCall
    /\ api.last.list = topics

\* the task of handler l goes on running in this step (no panic, no crash)
StaysAlive(l) == Alive(l) /\ loops'[l].pc \in {"polling", "handling", "committing"}

\* C22: when a handler invocation ends by returning, the loop's next step is
\* the commit_message call for that message, and only after it the loop polls
\* again: a polling loop has no message without its commit call, a loop that
\* handles or commits has exactly one; and the handler is only ever invoked with
\* a message the consumer has just delivered, never again with the one it
\* returned from.
C22_OneCommitPerReturn ==
    /\ [](\A l \in LoopIds :
            /\ loops[l].pc = "polling" => loops[l].uncommitted = 0
            /\ loops[l].pc \in {"handling", "committing"} => loops[l].uncommitted = 1)
    /\ [][\A l \in Handlers :
            (StaysAlive(l) /\ loops[l].pc = "handling" /\ loops'[l].pc # "handling")
                => (/\ loops'[l].pc = "committing"
                    /\ loops'[l].msg = loops[l].msg
                    /\ loops[l].msg.id \in handled'
                    /\ pending' = pending)]_vars
    /\ [][\A l \in Handlers :
            (StaysAlive(l) /\ loops[l].pc = "committing" /\ loops'[l].pc # "committing")
                => (/\ loops'[l].pc = "polling"
                    /\ loops[l].msg.id \in commitIssued'
                    /\ Len(pending') <= Len(pending) + 1
                    /\ loops'[l].seen = loops[l].seen)]_vars
    /\ [][\A l \in Handlers :
            (StaysAlive(l) /\ loops'[l].seen # loops[l].seen)
                => (/\ loops[l].pc = "polling"
                    /\ loops'[l].msg.off = position
                    /\ position' = position + 1)]_vars

\* C22 witness: a loop polls again after its handler returned from a message,
\* the commit request for that message is queued, and the next record waits.
C22_Witness ==
    \E l \in LoopIds :
        /\ loops[l].pc = "polling" /\ Len(loops[l].seen) = 1
        /\ loops[l].seen[1] \in handled /\ loops[l].seen[1] \in commitIssued
        /\ Len(pending) = 1
        /\ \E t \in subscription \cap topics : position < Len(log[t])

\* the commit_message call of loop l returns Err in this step: the loop leaves
\* the commit and no request was queued
CommitFails(l) ==
    /\ loops[l].pc = "committing" /\ loops'[l].pc # "committing"
    /\ pending' = pending

\* C23: when commit_message returns an error the loop is polling again after
\* it, with nothing more handed to its handler, nothing changed in the store or
\* in the consumer's position, and no caller's result changed.
C23_CommitErrorNotFatal ==
    [][\A l \in Handlers :
          CommitFails(l)
              => (/\ loops'[l].pc = "polling"
                  /\ loops'[l].seen = loops[l].seen
                  /\ loops'[l].msg = NoMsg
                  /\ handled' = handled
                  /\ api' = api
                  /\ UNCHANGED <<storeVars, position, subscription>>)]_vars

\* C23 witness: the commit for the first message failed (it was requested,
\* nothing is queued and the store holds no offset), and the loop has gone on to
\* hand the next message to the handler.
C23_Witness ==
    \E l \in LoopIds :
        /\ Len(loops[l].seen) = 2 /\ loops[l].pc = "handling"
        /\ loops[l].seen[1] \in commitIssued /\ loops[l].seen[1] # loops[l].seen[2]
        /\ pending = <<>> /\ committed[loops[l].topic] = NoOffset

\* C24 (as claimed): every create_topic, delete_topic, list_topics and publish
\* call ends by handing Ok or Err to its caller, never in a panic.
C24_Original ==
    api.last.op \in {"create_topic", "delete_topic", "list_topics", "publish"}
        => ~api.last.panicked

\* C25 (as claimed): the message a handler is invoked with is a record of the
\* topic that was named in the subscribe call that passed the handler.
C25_Original ==
    \A l \in LoopIds : loops[l].msg # NoMsg => loops[l].msg.topic = loops[l].topic

\* C26 (as claimed): a commit request of the facade never names a lower offset
\* than an earlier request of it for the same topic, queued or already applied
\* by the store.
C26_Original ==
    [][Len(pending') > Len(pending)
          => LET r == pending'[Len(pending')]
             IN /\ r.off >= committed[r.topic]
                /\ \A n \in 1..Len(pending) :
                      pending[n].topic = r.topic => pending[n].off <= r.off]_vars

\* the string has no character other than whitespace
AllWhitespace(str) == \A n \in 1..Len(str) : str[n] = " "

\* C27: a create_project request whose name or description is empty or all
\* whitespace gets status 400, makes no repository call and adds no row; one
\* whose name and description are not makes exactly one repository call, with
\* that name and description, and when the repository returns Ok the response
\* is 200 and carries them.
C27_CreateProjectValidation ==
    /\ [](rest.served =>
            IF AllWhitespace(rest.name) \/ AllWhitespace(rest.description)
            THEN rest.status = 400 /\ rest.repoCalls = <<>>
            ELSE /\ rest.repoCalls = <<[name |-> rest.name,
                                        description |-> rest.description]>>
                 /\ rest.repoOk => (/\ rest.status = 200
                                    /\ rest.body.name = rest.name
                                    /\ rest.body.description = rest.description))
    /\ [][(AllWhitespace(rest'.name) \/ AllWhitespace(rest'.description))
              => table' = table]_vars
    /\ [][Len(table') <= Len(table) + 1]_vars

\* C27 witness: a request with a whitespace-only description was answered 400
\* while the table holds a row created by an earlier, valid request.
C27_Witness ==
    /\ rest.served /\ rest.status = 400
    /\ rest.name = <<" ", "a">> /\ rest.description = <<" ">>
    /\ Len(table) = 1 /\ table[1].name = <<" ", "a">>

\* C28 (as claimed): when the repository call of create_project returned an
\* error, the client gets a response with status 500 and the handler did not
\* panic.
C28_Original ==
    (rest.served /\ rest.repoCalls # <<>> /\ ~rest.repoOk)
        => (rest.status = 500 /\ ~rest.panicked)

\* the rows of tbl at the 0-based positions (page - 1) * page_size up to
\* page * page_size - 1 that exist, for a page of any size
ExpectedPage(tbl, page, page_size) ==
    IF page.hi > 0 \/ page_size = 0 THEN <<>>
    ELSE LET first == (page.lo - 1) * page_size
             count == Cardinality({k \in first..(first + page_size - 1) : k < Len(tbl)})
         IN [n \in 1..count |-> tbl[first + n]]

\* C29 (as claimed): every get_projects query for a page >= 1 returns the rows
\* at the positions of that page in the newest-first table, none when the page
\* lies past the end.
C29_Original ==
    [][query' # query
          => (/\ query'.outcome = "ok"
              /\ query'.rows = ExpectedPage(table, query'.page, query'.page_size))]_vars

\* the messages of rounds 0..n-1 for receiver r, in send order
AllMessages(r, n) == [k \in 1..n |-> MessageFor(r, k - 1)]

\* C30: the channel demo terminates and loses nothing: main's join returns;
\* when it has, the manager has finished its 5 rounds without a failed send
\* and every receiving task has left its loop having received exactly its 5
\* messages in send order; no receiving task leaves its loop while its sender
\* is alive; and whenever the manager is at a send, the channel has room, so
\* it never waits on a full channel.
C30_DemoTerminates ==
    /\ <>(demo.main.pc = "returned")
    /\ [](demo.main.pc = "returned" =>
            /\ demo.manager.pc = "done" /\ demo.manager.i = Rounds
            /\ ~demo.manager.failed
            /\ \A r \in Receivers :
                  /\ demo.task[r].pc = "done"
                  /\ demo.task[r].received = AllMessages(r, Rounds))
    /\ [](\A r \in Receivers : demo.open[r] => demo.task[r].pc # "done")
    /\ [](/\ demo.manager.pc = "send_server" => Len(demo.chan[ServerTask]) < Capacity
          /\ demo.manager.pc = "send_executor"
                => Len(demo.chan[demo.manager.e]) < Capacity)

\* C30 witness: main has returned, and the server and executor 0 hold their 5
\* messages in send order.
C30_Witness ==
    /\ demo.main.pc = "returned"
    /\ demo.task[ServerTask].received = AllMessages(ServerTask, Rounds)
    /\ demo.task[0].received = AllMessages(0, Rounds)
====
